---- MODULE Spec2Model ----
(***************************************************************************)
(* State-machine model of the resilient email service:                     *)
(*   RateLimiter     (token bucket)            utils/RateLimiter           *)
(*   CircuitBreaker  (one per provider)        utils/CircuitBreaker        *)
(*   EmailService    (sendEmail, retry/fallback, queue, ledger)            *)
(*                                                                         *)
(* Time.  The code only ever uses Date.now() in differences                *)
(* (now - lastRefill, now - lastFailureTime, now - time) and in            *)
(* setTimeout delays.  Every stored timestamp is therefore kept as its AGE *)
(* (Date.now() - timestamp), every pending timer as its remaining time;    *)
(* Tick advances the clock by one unit.  An age saturates at the first     *)
(* value beyond every threshold the code compares it with, so the          *)
(* comparisons are exact while the state space stays finite.               *)
(*                                                                         *)
(* Concurrency.  JavaScript runs each async function without interruption  *)
(* up to its next await.  An action below is one such run; the tasks       *)
(* (sendEmail calls of the callers, the processQueue loop and the          *)
(* sendEmail call it awaits) interleave at their awaits.  Consecutive      *)
(* continuations that touch no shared state are folded into the step       *)
(* before them.  A continuation whose await has already resolved is a      *)
(* microtask: microtasks run in the order they were queued (`ready`), and  *)
(* before any timer, any provider answer (providers answer through I/O or  *)
(* a timer, as the mock providers do) and any advance of the clock.        *)
(* Callers may call sendEmail at any point.                                *)
(***************************************************************************)
EXTENDS Integers, Sequences, FiniteSets, TLC

(* ----------------------------- configuration --------------------------- *)
\* EmailServiceOptions (retry, rateLimit, circuitBreaker), in clock units.  The
\* service reads them from the `options` it was constructed with.
DefaultOptions ==
  [maxAttempts |-> 2, baseDelay |-> 1, maxDelay |-> 2, backoffFactor |-> 2,
   maxRequests |-> 2, windowMs |-> 2,
   failureThreshold |-> 2, resetTimeout |-> 2, monitoringWindow |-> 3]

\* the same with a breaker that opens on the first failure
EagerBreakerOptions == [DefaultOptions EXCEPT !.failureThreshold = 1]

\* the same with a bucket of one token
TightLimitOptions == [DefaultOptions EXCEPT !.maxRequests = 1]

\* the same with a window of three clock units: a token takes 1.5 units
SlowRefillOptions == [DefaultOptions EXCEPT !.windowMs = 3]

\* the same with a monitoring window of four clock units: a failure is still
\* inside the window when the reset timeout after it has passed
WideWindowOptions == [DefaultOptions EXCEPT !.monitoringWindow = 4]

\* the same with four attempts per provider and a delay cap of three units:
\* the backoff delays are 1, 2 and 3 (capped from 4)
LongRetryOptions == [DefaultOptions EXCEPT !.maxAttempts = 4, !.maxDelay = 3]

\* the fixed pause of processQueue while every breaker is open: delay(5000)
QueuePause == 2

\* providers in priority order, and the message identifiers callers use
Providers == <<"Provider A", "Provider B">>
NumProviders == Len(Providers)
ProviderNames == {Providers[k] : k \in 1..NumProviders}
MsgIds == {"m1", "m2"}

\* How a provider answers its calls: "free" (each call succeeds, throws or
\* resolves with success: false), "fail" (every call throws), or "count"
\* (the next `left` calls throw, every later call succeeds).
Free == [mode |-> "free", left |-> 0]
AlwaysFails == [mode |-> "fail", left |-> 0]
FailsThenSucceeds(k) == [mode |-> "count", left |-> k]
AlwaysSucceeds == FailsThenSucceeds(0)

(* -------------------------------- bounds ------------------------------- *)
\* sendEmail calls made by callers in one run
MaxSubmits == 2
\* the same, for callers that await each call before the next
MaxSeqSubmits == 2
\* execute() calls made on the breaker in one run of the breaker alone
MaxExecutes == 5
\* acquire() calls made on the rate limiter in one run of the limiter alone
MaxAcquires == 3
\* resetCircuitBreakers() calls made in one run
MaxResets == 1
\* sendEmail calls made by callers in one run with a bucket of one token and
\* providers that always succeed
MaxQueueSubmits == 3

Min(a, b) == IF a <= b THEN a ELSE b
CeilDiv(a, b) == (a + b - 1) \div b
RECURSIVE Pow(_, _)
Pow(b, e) == IF e = 0 THEN 1 ELSE b * Pow(b, e - 1)

\* slot 0 is the sendEmail call awaited by processQueue; the others are callers'
DrainSlot == 0
Slots == 0..MaxSubmits

\* the tasks: the sendEmail calls, by slot, and the processQueue loop
DrainTask == -1
Tasks == [k \in 1..(MaxSubmits + 2) |-> k - 2]

VARIABLES
  options,            \* EmailServiceOptions
  script,             \* provider name -> how the provider answers
  rateLimiter,        \* [tokens, lastRefill]; tokens in units of 1/windowMs token
  circuitBreakers,    \* provider name -> breaker record
  emailStatuses,      \* message id -> EmailStatus (status "none": no entry)
  sentEmails,         \* set of message ids
  emailQueue,         \* sequence of message ids
  isProcessingQueue,  \* BOOLEAN
  drain,              \* the processQueue task: [pc, timer, got]
  calls,              \* slot -> the sendEmail task in that slot
  ready,              \* the microtask queue: tasks whose await has resolved
  submits,            \* number of sendEmail calls made by callers so far
  ops,                \* breaker or limiter alone: the calls made on it so far
  returned,           \* what the last step returned to a caller of sendEmail
  history             \* what callers and providers have observed so far

vars == <<options, script, rateLimiter, circuitBreakers, emailStatuses,
          sentEmails, emailQueue, isProcessingQueue, drain, calls, ready,
          submits, ops, returned, history>>

(* ------------------------------ RateLimiter ---------------------------- *)
\* tokens are kept multiplied by windowMs, so that refillRate * timePassed
\* (= maxRequests / windowMs * timePassed) is the integer maxRequests * timePassed
OneToken == options.windowMs
FullBucket == options.maxRequests * options.windowMs

NewRateLimiter(o) == [tokens |-> o.maxRequests * o.windowMs, lastRefill |-> 0]

\* refill without the cap at maxTokens
RefillUncapped(rl) ==
  [tokens |-> rl.tokens + rl.lastRefill * options.maxRequests, lastRefill |-> 0]

Refill(rl) ==
  [tokens |-> Min(FullBucket, rl.tokens + rl.lastRefill * options.maxRequests),
   lastRefill |-> 0]

\* acquire admitting without taking the token
AcquireKeepsToken(rl) ==
  LET r == Refill(rl) IN
  [ok |-> r.tokens >= OneToken, rl |-> r]

Acquire(rl) ==
  LET r == Refill(rl) IN
  IF r.tokens >= OneToken
  THEN [ok |-> TRUE, rl |-> [r EXCEPT !.tokens = @ - OneToken]]
  ELSE [ok |-> FALSE, rl |-> r]

\* getAvailableTokens rounding up
GetAvailableTokensCeil(rl) == CeilDiv(Refill(rl).tokens, options.windowMs)

GetAvailableTokens(rl) == Refill(rl).tokens \div options.windowMs

\* getRemainingTime rounding down
GetRemainingTimeFloor(rl) ==
  IF rl.tokens >= OneToken THEN 0
  ELSE (OneToken - rl.tokens) \div options.maxRequests

GetRemainingTime(rl) ==
  IF rl.tokens >= OneToken THEN 0
  ELSE CeilDiv(OneToken - rl.tokens, options.maxRequests)

(* ----------------------------- CircuitBreaker -------------------------- *)
\* ages saturate one past the threshold they are compared with
FailAgeCap == options.resetTimeout + 1
HistAgeCap == options.monitoringWindow + 1

\* lastFailureTime = 0 is the epoch: older than any reset timeout
NewCircuitBreaker(o) ==
  [state |-> "closed", failures |-> 0, lastFailureTime |-> o.resetTimeout + 1,
   successCount |-> 0, failureHistory |-> <<>>]

\* cutoff = now - monitoringWindow; time >= cutoff is age <= monitoringWindow
CleanupHistory(h) ==
  LET keep == {k \in 1..Len(h) : h[k] <= options.monitoringWindow} IN
  IF keep = {} THEN h
  ELSE LET index == CHOOSE k \in keep : \A j \in keep : k <= j IN
       IF index > 1 THEN SubSeq(h, index, Len(h)) ELSE h

\* OnSuccess closing an open breaker as well
OnSuccessClosesOpen(b) ==
  LET b1 == [b EXCEPT !.failures = 0,
                      !.failureHistory = CleanupHistory(@)] IN
  IF b1.state \in {"half-open", "open"}
  THEN LET b2 == [b1 EXCEPT !.successCount = @ + 1] IN
       IF b2.successCount >= 2 THEN [b2 EXCEPT !.state = "closed"] ELSE b2
  ELSE b1

\* OnSuccess closing the breaker on the first probe success
OnSuccessClosesEarly(b) ==
  LET b1 == [b EXCEPT !.failures = 0,
                      !.failureHistory = CleanupHistory(@)] IN
  IF b1.state = "half-open"
  THEN LET b2 == [b1 EXCEPT !.successCount = @ + 1] IN
       IF b2.successCount >= 1 THEN [b2 EXCEPT !.state = "closed"] ELSE b2
  ELSE b1

\* OnSuccess taking a success that arrives in open for a reason to probe
OnSuccessProbesFromOpen(b) ==
  LET b1 == [b EXCEPT !.failures = 0,
                      !.failureHistory = CleanupHistory(@)] IN
  IF b1.state = "half-open"
  THEN LET b2 == [b1 EXCEPT !.successCount = @ + 1] IN
       IF b2.successCount >= 2 THEN [b2 EXCEPT !.state = "closed"] ELSE b2
  ELSE IF b1.state = "open"
  THEN [b1 EXCEPT !.state = "half-open", !.successCount = 0]
  ELSE b1

\* OnSuccess emptying the failure history when it closes the breaker
OnSuccessClearsHistory(b) ==
  LET b1 == [b EXCEPT !.failures = 0,
                      !.failureHistory = CleanupHistory(@)] IN
  IF b1.state = "half-open"
  THEN LET b2 == [b1 EXCEPT !.successCount = @ + 1] IN
       IF b2.successCount >= 2
       THEN [b2 EXCEPT !.state = "closed", !.failureHistory = <<>>]
       ELSE b2
  ELSE b1

OnSuccess(b) ==
  LET b1 == [b EXCEPT !.failures = 0,
                      !.failureHistory = CleanupHistory(@)] IN
  IF b1.state = "half-open"
  THEN LET b2 == [b1 EXCEPT !.successCount = @ + 1] IN
       IF b2.successCount >= 2 THEN [b2 EXCEPT !.state = "closed"] ELSE b2
  ELSE b1

\* the failures counted up to the edge of the monitoring window, edge included
RecentFailuresToEdge(h) ==
  Cardinality({k \in 1..Len(h) : h[k] <= options.monitoringWindow})

RecentFailures(h) ==
  Cardinality({k \in 1..Len(h) : h[k] < options.monitoringWindow})

\* OnFailure not counting the failure of a probe
OnFailureProbeUncounted(b) ==
  LET b1 == [b EXCEPT !.failures = IF b.state = "half-open" THEN @ ELSE @ + 1,
                      !.lastFailureTime = 0,
                      !.failureHistory = CleanupHistory(Append(@, 0))] IN
  IF b1.state = "half-open" THEN [b1 EXCEPT !.state = "open"]
  ELSE IF RecentFailures(b1.failureHistory) >= options.failureThreshold
       THEN [b1 EXCEPT !.state = "open"]
       ELSE b1

\* OnFailure opening only beyond the threshold
OnFailureOffByOne(b) ==
  LET b1 == [b EXCEPT !.failures = @ + 1,
                      !.lastFailureTime = 0,
                      !.failureHistory = CleanupHistory(Append(@, 0))] IN
  IF b1.state = "half-open" THEN [b1 EXCEPT !.state = "open"]
  ELSE IF RecentFailures(b1.failureHistory) > options.failureThreshold
       THEN [b1 EXCEPT !.state = "open"]
       ELSE b1

OnFailure(b) ==
  LET b1 == [b EXCEPT !.failures = @ + 1,
                      !.lastFailureTime = 0,
                      !.failureHistory = CleanupHistory(Append(@, 0))] IN
  IF b1.state = "half-open" THEN [b1 EXCEPT !.state = "open"]
  ELSE IF RecentFailures(b1.failureHistory) >= options.failureThreshold
       THEN [b1 EXCEPT !.state = "open"]
       ELSE b1

\* execute() recording a rejection as a failure
ExecuteEntryCountsRejection(b) ==
  IF b.state = "open"
  THEN IF b.lastFailureTime > options.resetTimeout
       THEN [admit |-> TRUE,
             b |-> [b EXCEPT !.state = "half-open", !.successCount = 0]]
       ELSE [admit |-> FALSE, b |-> OnFailure(b)]
  ELSE [admit |-> TRUE, b |-> b]

\* the part of execute() before the operation is invoked
ExecuteEntry(b) ==
  IF b.state = "open"
  THEN IF b.lastFailureTime > options.resetTimeout
       THEN [admit |-> TRUE,
             b |-> [b EXCEPT !.state = "half-open", !.successCount = 0]]
       ELSE [admit |-> FALSE, b |-> b]
  ELSE [admit |-> TRUE, b |-> b]

\* reset() leaving the failure history
ResetBreakerKeepsHistory(b) ==
  [b EXCEPT !.failures = 0, !.lastFailureTime = FailAgeCap, !.state = "closed",
            !.successCount = 0]

ResetBreaker(b) ==
  [b EXCEPT !.failures = 0, !.lastFailureTime = FailAgeCap, !.state = "closed",
            !.successCount = 0, !.failureHistory = <<>>]

AllCircuitBreakersOpen(cbs) ==
  \A p \in ProviderNames : cbs[p].state = "open"

(* ------------------------------ EmailService --------------------------- *)
\* lastAttempt and timestamp are ages: -1 unset, 0 taken in the current clock
\* unit, 1 taken earlier
NoStatus ==
  [status |-> "none", attempts |-> 0, provider |-> "", error |-> "",
   lastAttempt |-> -1]

\* an EmailResult; the timestamp of a non-success result is not modelled
NoResult == [success |-> FALSE, provider |-> "", error |-> "", timestamp |-> -1]

\* a sendEmail task: where it is, and its local variables.  Observations:
\* invoked counts the calls of provider.sendEmail made for it on the current
\* provider; late says that a sendEmail call for the same message had returned
\* success before this one was made.
IdleCall ==
  [pc |-> "idle", msg |-> "", prov |-> 0, attempt |-> 0, timer |-> 0,
   acquired |-> FALSE, lastError |-> "", result |-> NoResult, invoked |-> 0,
   late |-> FALSE]

DrainOff == [pc |-> "off", timer |-> 0, got |-> FALSE]

\* the slot of a call that has returned: processQueue still has to resume from it
Finished(i) == IF i = DrainSlot THEN [IdleCall EXCEPT !.pc = "done"] ELSE IdleCall

\* the await a task is suspended at has resolved
IsReady(t, cs, dr) ==
  IF t = DrainTask
  THEN dr.pc = "acq" \/ (dr.pc = "send" /\ cs[DrainSlot].pc = "done")
  ELSE cs[t].pc \in {"acq", "next", "ret"}

\* the microtask queue after a step that leaves the calls cs and the drain
\* task dr: the tasks the step made ready join the rest of the queue
Requeue(rest, cs, dr) ==
  rest \o SelectSeq(Tasks, LAMBDA t :
            IsReady(t, cs, dr) /\ ~\E k \in 1..Len(rest) : rest[k] = t)

NoReturn ==
  [slot |-> -1, msg |-> "", kind |-> "", result |-> NoResult, prov |-> 0,
   attempt |-> 0, invoked |-> 0, late |-> FALSE]

\* the outcome sendEmail hands back in slot i; kind: "idempotent", "queued" or
\* "dispatched"
Return(i, c, kind, res) ==
  [slot |-> i, msg |-> c.msg, kind |-> kind, result |-> res, prov |-> c.prov,
   attempt |-> c.attempt, invoked |-> c.invoked, late |-> c.late]

\* a pass of the loop that does not look at the breakers
DrainIterateSkipsBreakerCheck(q, cbs, rl) ==
  IF Len(q) = 0
  THEN [drain |-> DrainOff, rl |-> rl, flag |-> FALSE]
  ELSE LET a == Acquire(rl) IN
       [drain |-> [pc |-> "acq", timer |-> 0, got |-> a.ok],
        rl |-> a.rl, flag |-> TRUE]

\* a pass of the loop that gives up when the rate limiter denies it
DrainIterateStopsWhenDenied(q, cbs, rl) ==
  IF Len(q) = 0
  THEN [drain |-> DrainOff, rl |-> rl, flag |-> FALSE]
  ELSE IF AllCircuitBreakersOpen(cbs)
  THEN [drain |-> [pc |-> "pause", timer |-> QueuePause, got |-> FALSE],
        rl |-> rl, flag |-> TRUE]
  ELSE LET a == Acquire(rl) IN
       IF a.ok
       THEN [drain |-> [pc |-> "acq", timer |-> 0, got |-> TRUE],
             rl |-> a.rl, flag |-> TRUE]
       ELSE [drain |-> DrainOff, rl |-> a.rl, flag |-> FALSE]

\* a pass of the loop that asks the rate limiter before it looks at the breakers
DrainIterateAcquiresFirst(q, cbs, rl) ==
  IF Len(q) = 0
  THEN [drain |-> DrainOff, rl |-> rl, flag |-> FALSE]
  ELSE LET a == Acquire(rl) IN
       IF AllCircuitBreakersOpen(cbs)
       THEN [drain |-> [pc |-> "pause", timer |-> QueuePause, got |-> FALSE],
             rl |-> a.rl, flag |-> TRUE]
       ELSE [drain |-> [pc |-> "acq", timer |-> 0, got |-> a.ok],
             rl |-> a.rl, flag |-> TRUE]

\* one pass of the while loop of processQueue, up to its next await
DrainIterate(q, cbs, rl) ==
  IF Len(q) = 0
  THEN [drain |-> DrainOff, rl |-> rl, flag |-> FALSE]
  ELSE IF AllCircuitBreakersOpen(cbs)
  THEN [drain |-> [pc |-> "pause", timer |-> QueuePause, got |-> FALSE],
        rl |-> rl, flag |-> TRUE]
  ELSE LET a == Acquire(rl) IN
       [drain |-> [pc |-> "acq", timer |-> 0, got |-> a.ok],
        rl |-> a.rl, flag |-> TRUE]

\* processQueue without the isProcessingQueue guard
ProcessQueueUnguarded(q, cbs, rl, flag, dr) == DrainIterate(q, cbs, rl)

ProcessQueue(q, cbs, rl, flag, dr) ==
  IF flag \/ Len(q) = 0
  THEN [drain |-> dr, rl |-> rl, flag |-> flag]
  ELSE DrainIterate(q, cbs, rl)

\* the queued status counting an attempt
QueuedStatusCounted == [NoStatus EXCEPT !.status = "queued", !.attempts = 1]

QueuedStatus == [NoStatus EXCEPT !.status = "queued"]

\* addToQueue putting the message in front of the queue
AddToQueueAtHead(m, q, st, cbs, rl, flag, dr) ==
  LET q1 == <<m>> \o q
      pq == ProcessQueue(q1, cbs, rl, flag, dr) IN
  [q |-> q1, st |-> [st EXCEPT ![m] = QueuedStatus],
   rl |-> pq.rl, flag |-> pq.flag, drain |-> pq.drain]

\* addToQueue: push, status queued, then the synchronous start of processQueue
AddToQueue(m, q, st, cbs, rl, flag, dr) ==
  LET q1 == Append(q, m)
      pq == ProcessQueue(q1, cbs, rl, flag, dr) IN
  [q |-> q1, st |-> [st EXCEPT ![m] = QueuedStatus],
   rl |-> pq.rl, flag |-> pq.flag, drain |-> pq.drain]

IncrementAttemptCount(st, m) ==
  IF st[m].status # "none" THEN [st EXCEPT ![m].attempts = @ + 1] ELSE st

\* the delay without the cap of maxDelay
BackoffDelayUncapped(attempt) ==
  options.baseDelay * Pow(options.backoffFactor, attempt - 1)

BackoffDelay(attempt) ==
  Min(options.baseDelay * Pow(options.backoffFactor, attempt - 1),
      options.maxDelay)

\* the catch block of sendWithRetry: rethrow after the last attempt, else back off
Caught(c, err) ==
  IF c.attempt = options.maxAttempts
  THEN [c EXCEPT !.pc = "next", !.lastError = err]
  ELSE [c EXCEPT !.pc = "backoff", !.timer = BackoffDelay(c.attempt)]

\* a try that counts the attempt only when the breaker lets the call through
TryRejectionUncounted(c, p, attempt, st, cbs) ==
  LET name == Providers[p]
      e == ExecuteEntry(cbs[name])
      c1 == [c EXCEPT !.prov = p, !.attempt = attempt, !.acquired = FALSE,
                      !.invoked = IF p = c.prov THEN c.invoked ELSE 0] IN
  IF e.admit
  THEN [call |-> [c1 EXCEPT !.pc = "inflight", !.invoked = @ + 1],
        st |-> IncrementAttemptCount(st, c.msg),
        cbs |-> [cbs EXCEPT ![name] = e.b]]
  ELSE [call |-> Caught(c1, "Circuit breaker is OPEN"),
        st |-> st,
        cbs |-> cbs]

\* a try that goes to the provider after the one it was asked to try
TrySkipsAhead(c, p, attempt, st, cbs) ==
  LET q == Min(p + 1, NumProviders)
      name == Providers[q]
      e == ExecuteEntry(cbs[name])
      c1 == [c EXCEPT !.prov = q, !.attempt = attempt, !.acquired = FALSE,
                      !.invoked = IF q = c.prov THEN c.invoked ELSE 0] IN
  IF e.admit
  THEN [call |-> [c1 EXCEPT !.pc = "inflight", !.invoked = @ + 1],
        st |-> IncrementAttemptCount(st, c.msg),
        cbs |-> [cbs EXCEPT ![name] = e.b]]
  ELSE [call |-> Caught(c1, "Circuit breaker is OPEN"),
        st |-> IncrementAttemptCount(st, c.msg),
        cbs |-> cbs]

\* one pass of the while loop of sendWithRetry for provider number p, up to the
\* await of circuitBreaker.execute: count the attempt, then execute() either
\* rejects (breaker open) or invokes provider.sendEmail
Try(c, p, attempt, st, cbs) ==
  LET name == Providers[p]
      e == ExecuteEntry(cbs[name])
      c1 == [c EXCEPT !.prov = p, !.attempt = attempt, !.acquired = FALSE,
                      !.invoked = IF p = c.prov THEN c.invoked ELSE 0] IN
  IF e.admit
  THEN [call |-> [c1 EXCEPT !.pc = "inflight", !.invoked = @ + 1],
        st |-> IncrementAttemptCount(st, c.msg),
        cbs |-> [cbs EXCEPT ![name] = e.b]]
  ELSE [call |-> Caught(c1, "Circuit breaker is OPEN"),
        st |-> IncrementAttemptCount(st, c.msg),
        cbs |-> cbs]

IdempotentResult(s) ==
  [success |-> TRUE,
   provider |-> IF s.provider = "" THEN "unknown" ELSE s.provider,
   error |-> "",
   timestamp |-> IF s.lastAttempt = -1 THEN 0 ELSE s.lastAttempt]

AllOpenResult ==
  [NoResult EXCEPT
     !.error = "All providers temporarily unavailable. Email queued for retry.",
     !.provider = "queue"]

\* the text goes on with the wait time, which is left out
RateLimitResult ==
  [NoResult EXCEPT !.error = "Rate limit exceeded.", !.provider = "queue"]

\* sendEmail(m) in slot i from its call to its first await (or to its return
\* before it); q, flag, dr: the queue, isProcessingQueue and the drain task as
\* the call finds them
SendEmailEntry(i, m, q, flag, dr) ==
  LET c == [IdleCall EXCEPT !.msg = m, !.late = history.firstSuccess[m].success]
      same == [call |-> Finished(i), st |-> emailStatuses, q |-> q,
               rl |-> rateLimiter, flag |-> flag, drain |-> dr,
               ret |-> NoReturn] IN
  IF m \in sentEmails /\ emailStatuses[m].status = "sent"
  THEN [same EXCEPT
          !.ret = Return(i, c, "idempotent", IdempotentResult(emailStatuses[m]))]
  ELSE IF AllCircuitBreakersOpen(circuitBreakers)
  THEN LET a == AddToQueue(m, q, emailStatuses, circuitBreakers, rateLimiter,
                           flag, dr) IN
       [call |-> Finished(i), st |-> a.st, q |-> a.q, rl |-> a.rl,
        flag |-> a.flag, drain |-> a.drain,
        ret |-> Return(i, c, "queued", AllOpenResult)]
  ELSE LET a == Acquire(rateLimiter) IN
       [same EXCEPT !.call = [c EXCEPT !.pc = "acq", !.acquired = a.ok],
                    !.rl = a.rl]

SendingStatus == [NoStatus EXCEPT !.status = "sending"]

\* the success left unrecorded
SentStatusNotRecorded(st, m, res) == st[m]

SentStatus(st, m, res) ==
  [NoStatus EXCEPT !.status = "sent", !.attempts = st[m].attempts,
                   !.provider = res.provider, !.lastAttempt = 0]

\* the failure left unrecorded
FailedStatusNotRecorded(st, m, err) == st[m]

FailedStatus(st, m, err) ==
  [NoStatus EXCEPT !.status = "failed", !.attempts = st[m].attempts,
                   !.error = err, !.lastAttempt = 0]

\* observations: per message, how many provider calls for it succeeded, and the
\* first success outcome a sendEmail call returned for it, and the providers
\* whose call for it succeeded; elapsed: the clock has advanced since the
\* service was constructed
NoHistory ==
  [delivered |-> [m \in MsgIds |-> 0], firstSuccess |-> [m \in MsgIds |-> NoResult],
   by |-> [m \in MsgIds |-> {}], elapsed |-> FALSE]

Observe(h, ret) ==
  IF ret.slot # -1 /\ ret.result.success /\ ~h.firstSuccess[ret.msg].success
  THEN [h EXCEPT !.firstSuccess[ret.msg] = ret.result]
  ELSE h

\* a provider call that resolves: the breaker records the success, the result
\* travels back to sendEmail.  ts: age of the timestamp the provider put in it.
\* the result naming the first provider, whichever provider answered
ProviderResultOfFirst(name, ts) ==
  [success |-> TRUE, provider |-> Providers[1], error |-> "", timestamp |-> ts]

ProviderResult(name, ts) ==
  [success |-> TRUE, provider |-> name, error |-> "", timestamp |-> ts]

SoftFailure(name) ==
  [success |-> FALSE, provider |-> name, error |-> "provider reported failure",
   timestamp |-> -1]

AllFailedResult(err) ==
  [success |-> FALSE, provider |-> "none",
   error |-> IF err = "" THEN "All providers failed" ELSE err, timestamp |-> -1]

(* -------------------------------- scenarios ---------------------------- *)
FreeProviders == [p \in ProviderNames |-> Free]
FirstFailsSecondSucceeds ==
  [p \in ProviderNames |-> IF p = Providers[1] THEN AlwaysFails ELSE AlwaysSucceeds]
AllFail == [p \in ProviderNames |-> AlwaysFails]
FirstFailsOnce ==
  [p \in ProviderNames |->
     IF p = Providers[1] THEN FailsThenSucceeds(1) ELSE AlwaysFails]
AllSucceed == [p \in ProviderNames |-> AlwaysSucceeds]

Scenarios ==
  {[options |-> DefaultOptions, script |-> FreeProviders],
   [options |-> DefaultOptions, script |-> FirstFailsSecondSucceeds],
   [options |-> DefaultOptions, script |-> AllFail],
   [options |-> DefaultOptions, script |-> FirstFailsOnce],
   [options |-> EagerBreakerOptions, script |-> FirstFailsOnce],
   [options |-> TightLimitOptions, script |-> AllSucceed],
   [options |-> LongRetryOptions, script |-> FirstFailsSecondSucceeds]}

\* the breaker driven on its own: nothing has happened yet
NoEvent == [op |-> "", was |-> "", elapsed |-> 0, inflight |-> 0]

\* the rate limiter driven on its own: no call made yet
NoCall ==
  [op |-> "", before |-> [tokens |-> 0, lastRefill |-> 0], ok |-> FALSE,
   reported |-> 0]

NoOps ==
  [inflight |-> 0, executes |-> 0, failed |-> <<>>, wins |-> 0, event |-> NoEvent,
   acquires |-> 0, admitted |-> 0, call |-> NoCall, unread |-> NoCall.before,
   wait |-> -1, since |-> 0, resets |-> 0]

(* ---------------------------------- Init ------------------------------- *)
\* the state the constructor leaves, in one of the scenarios
InitService(sc) ==
  /\ options = sc.options
  /\ script = sc.script
  /\ rateLimiter = NewRateLimiter(sc.options)
  /\ circuitBreakers = [p \in ProviderNames |-> NewCircuitBreaker(sc.options)]
  /\ emailStatuses = [m \in MsgIds |-> NoStatus]
  /\ sentEmails = {}
  /\ emailQueue = <<>>
  /\ isProcessingQueue = FALSE
  /\ drain = DrainOff
  /\ calls = [i \in Slots |-> IdleCall]
  /\ ready = <<>>
  /\ submits = 0
  /\ ops = [NoOps EXCEPT !.unread = NewRateLimiter(sc.options)]
  /\ returned = NoReturn
  /\ history = NoHistory

Init == \E sc \in Scenarios : InitService(sc)

(* --------------------------------- actions ----------------------------- *)
\* what every step does with the observations
Returns(ret, h) ==
  /\ returned' = ret
  /\ history' = Observe(h, ret)

Quiet == Returns(NoReturn, history)

\* task t is the microtask to run next
Turn(t) == ready # <<>> /\ Head(ready) = t

\* the microtask queue after the step of the task at its head, and after a
\* step of another kind
Ran == ready' = Requeue(Tail(ready), calls', drain')
Kept == ready' = Requeue(ready, calls', drain')

\* the effect of calling sendEmail(m) in slot i
CallSendEmail(i, m, q, flag, dr) ==
  LET e == SendEmailEntry(i, m, q, flag, dr) IN
  /\ calls' = [calls EXCEPT ![i] = e.call]
  /\ emailStatuses' = e.st
  /\ emailQueue' = e.q
  /\ rateLimiter' = e.rl
  /\ isProcessingQueue' = e.flag
  /\ drain' = e.drain
  /\ Returns(e.ret, history)

FreeSlot == CHOOSE i \in Slots \ {DrainSlot} :
              /\ calls[i].pc = "idle"
              /\ \A j \in Slots \ {DrainSlot} : calls[j].pc = "idle" => i <= j

\* message ids are interchangeable: the first one used is "m1"
FreshId(m) == submits = 0 => m = "m1"

\* a caller calls sendEmail(m), whatever else is going on
Submit(m) ==
  /\ submits < MaxSubmits
  /\ FreshId(m)
  /\ submits' = submits + 1
  /\ CallSendEmail(FreeSlot, m, emailQueue, isProcessingQueue, drain)
  /\ Kept
  /\ UNCHANGED <<options, script, circuitBreakers, sentEmails, ops>>

\* a caller that awaits each sendEmail before making the next call
SubmitSeq(m) ==
  /\ submits < MaxSeqSubmits
  /\ \A i \in Slots \ {DrainSlot} : calls[i].pc = "idle"
  /\ FreshId(m)
  /\ submits' = submits + 1
  /\ CallSendEmail(FreeSlot, m, emailQueue, isProcessingQueue, drain)
  /\ Kept
  /\ UNCHANGED <<options, script, circuitBreakers, sentEmails, ops>>

\* sendEmail resumes after `await this.rateLimiter.acquire()`
AfterAcquire(i) ==
  LET c == calls[i] IN
  /\ c.pc = "acq"
  /\ Turn(i)
  /\ IF c.acquired
     THEN LET t == Try(c, 1, 1, [emailStatuses EXCEPT ![c.msg] = SendingStatus],
                       circuitBreakers) IN
          /\ calls' = [calls EXCEPT ![i] = t.call]
          /\ emailStatuses' = t.st
          /\ circuitBreakers' = t.cbs
          /\ Quiet
          /\ UNCHANGED <<emailQueue, rateLimiter, isProcessingQueue, drain>>
     ELSE LET a == AddToQueue(c.msg, emailQueue, emailStatuses, circuitBreakers,
                              rateLimiter, isProcessingQueue, drain) IN
          /\ calls' = [calls EXCEPT ![i] = Finished(i)]
          /\ emailStatuses' = a.st
          /\ emailQueue' = a.q
          /\ rateLimiter' = a.rl
          /\ isProcessingQueue' = a.flag
          /\ drain' = a.drain
          /\ Returns(Return(i, c, "queued", RateLimitResult), history)
          /\ UNCHANGED circuitBreakers
  /\ Ran
  /\ UNCHANGED <<options, script, sentEmails, submits, ops>>

\* what the provider's script allows its next call to do
MaySucceed(name) ==
  \/ script[name].mode = "free"
  \/ script[name].mode = "count" /\ script[name].left = 0

MayThrow(name) ==
  \/ script[name].mode \in {"free", "fail"}
  \/ script[name].mode = "count" /\ script[name].left > 0

Threw(name) ==
  IF script[name].mode = "count"
  THEN [script EXCEPT ![name].left = @ - 1]
  ELSE script

CountDelivered(h, m, name) ==
  [h EXCEPT !.delivered[m] = Min(@ + 1, 2), !.by[m] = @ \cup {name}]

\* provider.sendEmail resolves with a success result: execute() runs onSuccess
\* and returns the result
ProviderSucceeds(i) ==
  LET c == calls[i]
      name == Providers[c.prov] IN
  /\ c.pc = "inflight"
  /\ ready = <<>>
  /\ MaySucceed(name)
  /\ \E ts \in {0, 1} :
       calls' = [calls EXCEPT ![i] = [c EXCEPT !.pc = "ret",
                                               !.result = ProviderResult(name, ts)]]
  /\ circuitBreakers' = [circuitBreakers EXCEPT ![name] = OnSuccess(@)]
  /\ Returns(NoReturn, CountDelivered(history, c.msg, name))
  /\ UNCHANGED <<options, script, rateLimiter, emailStatuses, sentEmails,
                 emailQueue, isProcessingQueue, drain, submits, ops>>
  /\ Kept

\* provider.sendEmail resolves with success: false: to execute() that is a
\* success as well
ProviderResolvesFailure(i) ==
  LET c == calls[i]
      name == Providers[c.prov] IN
  /\ c.pc = "inflight"
  /\ ready = <<>>
  /\ script[name].mode = "free"
  /\ calls' = [calls EXCEPT ![i] = [c EXCEPT !.pc = "ret",
                                             !.result = SoftFailure(name)]]
  /\ circuitBreakers' = [circuitBreakers EXCEPT ![name] = OnSuccess(@)]
  /\ Quiet
  /\ UNCHANGED <<options, script, rateLimiter, emailStatuses, sentEmails,
                 emailQueue, isProcessingQueue, drain, submits, ops>>
  /\ Kept

\* provider.sendEmail rejects: execute() runs onFailure and rethrows, the
\* catch block of sendWithRetry decides
ProviderThrows(i) ==
  LET c == calls[i]
      name == Providers[c.prov] IN
  /\ c.pc = "inflight"
  /\ ready = <<>>
  /\ MayThrow(name)
  /\ script' = Threw(name)
  /\ calls' = [calls EXCEPT ![i] = Caught(c, "provider error")]
  /\ circuitBreakers' = [circuitBreakers EXCEPT ![name] = OnFailure(@)]
  /\ Quiet
  /\ UNCHANGED <<options, rateLimiter, emailStatuses, sentEmails, emailQueue,
                 isProcessingQueue, drain, submits, ops>>
  /\ Kept

\* the backoff delay of sendWithRetry is over: next attempt on the same provider
BackoffDone(i) ==
  LET c == calls[i]
      t == Try(c, c.prov, c.attempt + 1, emailStatuses, circuitBreakers) IN
  /\ c.pc = "backoff"
  /\ c.timer = 0
  /\ ready = <<>>
  /\ calls' = [calls EXCEPT ![i] = t.call]
  /\ emailStatuses' = t.st
  /\ circuitBreakers' = t.cbs
  /\ Quiet
  /\ UNCHANGED <<options, script, rateLimiter, sentEmails, emailQueue,
                 isProcessingQueue, drain, submits, ops>>
  /\ Kept

\* sendWithRetry threw: sendWithRetryAndFallback moves to the next provider, or
\* returns the failure result after the last one
NextProvider(i) ==
  LET c == calls[i] IN
  /\ c.pc = "next"
  /\ Turn(i)
  /\ IF c.prov < NumProviders
     THEN LET t == Try(c, c.prov + 1, 1, emailStatuses, circuitBreakers) IN
          /\ calls' = [calls EXCEPT ![i] = t.call]
          /\ emailStatuses' = t.st
          /\ circuitBreakers' = t.cbs
     ELSE /\ calls' = [calls EXCEPT ![i] =
                         [c EXCEPT !.pc = "ret",
                                   !.result = AllFailedResult(c.lastError)]]
          /\ UNCHANGED <<emailStatuses, circuitBreakers>>
  /\ Quiet
  /\ UNCHANGED <<options, script, rateLimiter, sentEmails, emailQueue,
                 isProcessingQueue, drain, submits, ops>>
  /\ Ran

\* sendEmail resumes with the result of sendWithRetryAndFallback (which never
\* throws), records it in the ledger and returns it
RecordResult(i) ==
  LET c == calls[i] IN
  /\ c.pc = "ret"
  /\ Turn(i)
  /\ IF c.result.success
     THEN /\ sentEmails' = sentEmails \cup {c.msg}
          /\ emailStatuses' =
               [emailStatuses EXCEPT ![c.msg] = SentStatus(emailStatuses, c.msg, c.result)]
     ELSE /\ sentEmails' = sentEmails
          /\ emailStatuses' =
               [emailStatuses EXCEPT ![c.msg] = FailedStatus(emailStatuses, c.msg, c.result.error)]
  /\ calls' = [calls EXCEPT ![i] = Finished(i)]
  /\ Returns(Return(i, c, "dispatched", c.result), history)
  /\ UNCHANGED <<options, script, rateLimiter, circuitBreakers, emailQueue,
                 isProcessingQueue, drain, submits, ops>>
  /\ Ran

\* processQueue resumes after `await this.rateLimiter.acquire()`: with a token
\* it shifts the queue and calls sendEmail, without one it waits
DrainAfterAcquire ==
  /\ drain.pc = "acq"
  /\ Turn(DrainTask)
  /\ IF drain.got
     THEN /\ CallSendEmail(DrainSlot, Head(emailQueue), Tail(emailQueue),
                           isProcessingQueue,
                           [pc |-> "send", timer |-> 0, got |-> FALSE])
     ELSE /\ drain' = [pc |-> "wait", timer |-> GetRemainingTime(rateLimiter),
                       got |-> FALSE]
          /\ Quiet
          /\ UNCHANGED <<calls, emailStatuses, emailQueue, rateLimiter,
                         isProcessingQueue>>
  /\ UNCHANGED <<options, script, circuitBreakers, sentEmails, submits, ops>>
  /\ Ran

\* processQueue resumes after a delay or after the sendEmail it awaited
DrainResume ==
  /\ \/ drain.pc \in {"pause", "wait"} /\ drain.timer = 0 /\ ready = <<>>
     \/ drain.pc = "send" /\ calls[DrainSlot].pc = "done" /\ Turn(DrainTask)
  /\ LET d == DrainIterate(emailQueue, circuitBreakers, rateLimiter) IN
     /\ drain' = d.drain
     /\ rateLimiter' = d.rl
     /\ isProcessingQueue' = d.flag
  /\ calls' = [calls EXCEPT ![DrainSlot] = IdleCall]
  /\ Quiet
  /\ UNCHANGED <<options, script, circuitBreakers, emailStatuses, sentEmails,
                 emailQueue, submits, ops>>
  /\ ready' = Requeue(IF ready = <<>> THEN ready ELSE Tail(ready), calls', drain')

(* ---------------------------------- time ------------------------------- *)
Older(age, cap) == IF age = -1 THEN -1 ELSE Min(age + 1, cap)
Sooner(t) == IF t > 0 THEN t - 1 ELSE 0

OlderResult(r) == [r EXCEPT !.timestamp = Older(@, 1)]

OlderBreaker(b) ==
  [b EXCEPT !.lastFailureTime = Older(@, FailAgeCap),
            !.failureHistory = [k \in 1..Len(@) |-> Older(@[k], HistAgeCap)]]

\* one clock unit passes, once the microtasks have run
Tick ==
  /\ ready = <<>>
  /\ rateLimiter' = [rateLimiter EXCEPT !.lastRefill = Older(@, options.windowMs)]
  /\ circuitBreakers' = [p \in ProviderNames |-> OlderBreaker(circuitBreakers[p])]
  /\ emailStatuses' =
       [m \in MsgIds |-> [emailStatuses[m] EXCEPT !.lastAttempt = Older(@, 1)]]
  /\ calls' = [i \in Slots |-> [calls[i] EXCEPT !.timer = Sooner(@),
                                                !.result = OlderResult(@)]]
  /\ drain' = [drain EXCEPT !.timer = Sooner(@)]
  /\ returned' = NoReturn
  /\ history' = [history EXCEPT
                   !.firstSuccess = [m \in MsgIds |-> OlderResult(@[m])],
                   !.elapsed = TRUE]
  /\ UNCHANGED <<options, script, sentEmails, emailQueue, isProcessingQueue,
                 ready, submits, ops>>

(* ------------------------------ specifications ------------------------- *)
\* the steps of the tasks in flight
Progress ==
  \/ \E i \in Slots :
       \/ AfterAcquire(i)
       \/ ProviderSucceeds(i)
       \/ ProviderResolvesFailure(i)
       \/ ProviderThrows(i)
       \/ BackoffDone(i)
       \/ NextProvider(i)
       \/ RecordResult(i)
  \/ DrainAfterAcquire
  \/ DrainResume

\* callers may call sendEmail at any time
Next ==
  \/ \E m \in MsgIds : Submit(m)
  \/ Progress
  \/ Tick

Spec == Init /\ [][Next]_vars

\* a caller awaits each call before making the next
NextSeq ==
  \/ \E m \in MsgIds : SubmitSeq(m)
  \/ Progress
  \/ Tick

SpecSeq == Init /\ [][NextSeq]_vars

\* The event loop runs every continuation that is ready, every timer fires
\* once it is due, the clock advances, and a provider answers every call.
\* Nothing obliges a caller to call sendEmail.
Fairness ==
  /\ WF_vars(Tick)
  /\ WF_vars(DrainAfterAcquire)
  /\ WF_vars(DrainResume)
  /\ \A i \in Slots :
       /\ WF_vars(AfterAcquire(i))
       /\ WF_vars(BackoffDone(i))
       /\ WF_vars(NextProvider(i))
       /\ WF_vars(RecordResult(i))
       /\ WF_vars(ProviderSucceeds(i) \/ ProviderResolvesFailure(i)
                    \/ ProviderThrows(i))

SpecFair == Init /\ [][NextSeq]_vars /\ Fairness

(* --------------------------- the breaker on its own -------------------- *)
\* One CircuitBreaker driven directly, as its unit tests drive it: execute()
\* with operations that resolve or reject later, reset(), and the clock.
\* ops.inflight: operations invoked and not yet settled; ops.executes:
\* execute() calls so far; ops.failed: the ages of the operations that failed
\* since construction or reset(); ops.wins: the operations that succeeded while
\* the breaker was half-open, since it last became half-open; ops.event: the call
\* the last step made and the state it found (was, elapsed = now -
\* lastFailureTime, inflight).
Breaker == Providers[1]

Event(op) ==
  [op |-> op, was |-> circuitBreakers[Breaker].state,
   elapsed |-> circuitBreakers[Breaker].lastFailureTime,
   inflight |-> ops.inflight]

\* execute(operation) up to the await of the operation
Execute ==
  LET e == ExecuteEntry(circuitBreakers[Breaker]) IN
  /\ ops.executes < MaxExecutes
  /\ circuitBreakers' = [circuitBreakers EXCEPT ![Breaker] = e.b]
  /\ ops' = [ops EXCEPT !.inflight = @ + (IF e.admit THEN 1 ELSE 0),
                        !.executes = @ + 1,
                        !.wins = IF e.b.state # circuitBreakers[Breaker].state
                                 THEN 0 ELSE @,
                        !.event = Event("execute")]
  /\ UNCHANGED <<options, script, rateLimiter, emailStatuses, sentEmails,
                 emailQueue, isProcessingQueue, drain, calls, ready, submits,
                 returned, history>>

\* an operation resolves
OpSucceeds ==
  /\ ops.inflight > 0
  /\ circuitBreakers' = [circuitBreakers EXCEPT ![Breaker] = OnSuccess(@)]
  /\ ops' = [ops EXCEPT !.inflight = @ - 1,
                        !.wins = IF circuitBreakers[Breaker].state = "half-open"
                                 THEN @ + 1 ELSE @,
                        !.event = Event("success")]
  /\ UNCHANGED <<options, script, rateLimiter, emailStatuses, sentEmails,
                 emailQueue, isProcessingQueue, drain, calls, ready, submits,
                 returned, history>>

\* an operation rejects
OpFails ==
  /\ ops.inflight > 0
  /\ circuitBreakers' = [circuitBreakers EXCEPT ![Breaker] = OnFailure(@)]
  /\ ops' = [ops EXCEPT !.inflight = @ - 1, !.failed = Append(@, 0),
                        !.event = Event("failure")]
  /\ UNCHANGED <<options, script, rateLimiter, emailStatuses, sentEmails,
                 emailQueue, isProcessingQueue, drain, calls, ready, submits,
                 returned, history>>

Reset ==
  /\ circuitBreakers' = [circuitBreakers EXCEPT ![Breaker] = ResetBreaker(@)]
  /\ ops' = [ops EXCEPT !.failed = <<>>, !.wins = 0, !.event = Event("reset")]
  /\ UNCHANGED <<options, script, rateLimiter, emailStatuses, sentEmails,
                 emailQueue, isProcessingQueue, drain, calls, ready, submits,
                 returned, history>>

BreakerTick ==
  /\ circuitBreakers' = [circuitBreakers EXCEPT ![Breaker] = OlderBreaker(@)]
  /\ ops' = [ops EXCEPT
               !.failed = [k \in 1..Len(@) |-> Older(@[k], HistAgeCap)],
               !.event = NoEvent]
  /\ UNCHANGED <<options, script, rateLimiter, emailStatuses, sentEmails,
                 emailQueue, isProcessingQueue, drain, calls, ready, submits,
                 returned, history>>

InitBreaker ==
  \E o \in {DefaultOptions, EagerBreakerOptions, WideWindowOptions} :
    InitService([options |-> o, script |-> FreeProviders])

NextBreaker ==
  \/ Execute
  \/ OpSucceeds
  \/ OpFails
  \/ Reset
  \/ BreakerTick

SpecBreaker == InitBreaker /\ [][NextBreaker]_vars

(* ------------------------- the rate limiter on its own ----------------- *)
\* One RateLimiter driven directly, as its unit tests drive it: acquire(),
\* getAvailableTokens() and the clock.  ops.acquires: acquire() calls so far;
\* ops.admitted: those that returned true; ops.call: the call the last step
\* made, the limiter as the call found it (before), and what the call returned
\* (ok, reported); ops.unread: a second limiter, constructed at the same time,
\* on which the same acquire() calls are made and getAvailableTokens() never;
\* ops.wait: what getRemainingTime() gave right after the last acquire() if
\* that was denied (-1 if not); ops.since: the time since the last acquire().
LimiterAcquire ==
  LET a == Acquire(rateLimiter) IN
  /\ ops.acquires < MaxAcquires
  /\ rateLimiter' = a.rl
  /\ ops' = [ops EXCEPT !.acquires = @ + 1,
                        !.admitted = @ + (IF a.ok THEN 1 ELSE 0),
                        !.call = [op |-> "acquire", before |-> rateLimiter,
                                  ok |-> a.ok, reported |-> 0],
                        !.unread = Acquire(@).rl,
                        !.wait = IF a.ok THEN -1 ELSE GetRemainingTime(a.rl),
                        !.since = 0]
  /\ UNCHANGED <<options, script, circuitBreakers, emailStatuses, sentEmails,
                 emailQueue, isProcessingQueue, drain, calls, ready, submits,
                 returned, history>>

LimiterAvailable ==
  /\ rateLimiter' = Refill(rateLimiter)
  /\ ops' = [ops EXCEPT !.call = [op |-> "available", before |-> rateLimiter,
                                  ok |-> FALSE,
                                  reported |-> GetAvailableTokens(rateLimiter)]]
  /\ UNCHANGED <<options, script, circuitBreakers, emailStatuses, sentEmails,
                 emailQueue, isProcessingQueue, drain, calls, ready, submits,
                 returned, history>>

\* getRemainingTime(): reads the stored tokens, refills nothing
LimiterRemaining ==
  /\ ops' = [ops EXCEPT !.call = [op |-> "remaining", before |-> rateLimiter,
                                  ok |-> FALSE,
                                  reported |-> GetRemainingTime(rateLimiter)]]
  /\ UNCHANGED <<options, script, rateLimiter, circuitBreakers, emailStatuses,
                 sentEmails, emailQueue, isProcessingQueue, drain, calls, ready,
                 submits, returned, history>>

LimiterTick ==
  /\ rateLimiter' = [rateLimiter EXCEPT !.lastRefill = Older(@, options.windowMs)]
  /\ ops' = [ops EXCEPT !.call = NoCall,
                        !.unread.lastRefill = Older(@, options.windowMs),
                        !.since = Min(@ + 1, options.windowMs)]
  /\ history' = [history EXCEPT !.elapsed = TRUE]
  /\ UNCHANGED <<options, script, circuitBreakers, emailStatuses, sentEmails,
                 emailQueue, isProcessingQueue, drain, calls, ready, submits,
                 returned>>

InitLimiter ==
  \E o \in {DefaultOptions, TightLimitOptions, SlowRefillOptions} :
    InitService([options |-> o, script |-> FreeProviders])

NextLimiter ==
  \/ LimiterAcquire
  \/ LimiterAvailable
  \/ LimiterRemaining
  \/ LimiterTick

SpecLimiter == InitLimiter /\ [][NextLimiter]_vars

(* ------------------------------- idempotency --------------------------- *)
\* C1: a sendEmail call for a message made after a call for the same message
\* had returned success returns the idempotent success: it makes no attempt, so
\* it invokes no provider and counts no attempt.
C1_LaterSubmitShortCircuits ==
  (returned.slot # -1 /\ returned.late)
    => /\ returned.kind = "idempotent"
       /\ returned.result.success
       /\ returned.attempt = 0
       /\ returned.invoked = 0

\* C2: for every message, at most one provider call ever succeeds.
C2_NoDuplicateDelivery == \A m \in MsgIds : history.delivered[m] <= 1

\* C5: the idempotent success carries the provider and the timestamp of the
\* first success outcome returned for the message.
C5_SameProviderAndTimestamp ==
  returned.kind = "idempotent"
    => /\ returned.result.provider = history.firstSuccess[returned.msg].provider
       /\ returned.result.timestamp = history.firstSuccess[returned.msg].timestamp

(* ------------------------------ deferred queue ------------------------- *)
\* sendEmail has just returned having queued m for the reason given
JustQueued(m, why) ==
  /\ returned.kind = "queued"
  /\ returned.msg = m
  /\ returned.result.error = why

\* a sendEmail call for m is past admission: in sendWithRetryAndFallback
Dispatched(m) ==
  \E i \in Slots :
    calls[i].msg = m /\ calls[i].pc \in {"inflight", "backoff", "next", "ret"}

\* C3: a message queued because the rate limiter denied it is eventually
\* dispatched.
C3_RateLimitedEventuallyDispatched ==
  \A m \in MsgIds : JustQueued(m, RateLimitResult.error) ~> Dispatched(m)

\* C4: a message queued because every breaker was open is eventually attempted
\* against a provider (no resetCircuitBreakers() is ever called here).
C4_AllOpenEventuallyAttempted ==
  \A m \in MsgIds :
    JustQueued(m, AllOpenResult.error)
      ~> (\E i \in Slots : calls[i].msg = m /\ calls[i].attempt > 0)

(* ----------------------------- retry and fallback ---------------------- *)
\* C6: with a first provider that always fails and a second that always
\* succeeds, a dispatched sendEmail returns success by the second provider, and
\* the status counts at least maxAttempts attempts, exactly maxAttempts + 1 when
\* the second provider was invoked once.
C6_FallbackToSecond ==
  (script = FirstFailsSecondSucceeds /\ returned.kind = "dispatched")
    => /\ returned.result.success
       /\ returned.result.provider = Providers[2]
       /\ emailStatuses[returned.msg].attempts >= options.maxAttempts
       /\ returned.invoked = 1
            => emailStatuses[returned.msg].attempts = options.maxAttempts + 1

\* C7 as stated: with providers that all always fail, every sendEmail call
\* returns non-success with an error text, and the status is failed then.
C7_EverySubmitFails ==
  (script = AllFail /\ returned.slot # -1)
    => /\ ~returned.result.success
       /\ returned.result.error # ""
       /\ emailStatuses[returned.msg].status = "failed"

\* C7 amended: with providers that all always fail, every sendEmail call
\* returns non-success with an error text; the status is failed when a
\* dispatched call returns, and queued when the call returns having queued the
\* message.
C7_DispatchedFailsQueuedWaits ==
  (script = AllFail /\ returned.slot # -1)
    => /\ ~returned.result.success
       /\ returned.result.error # ""
       /\ returned.kind \in {"dispatched", "queued"}
       /\ returned.kind = "dispatched"
            => emailStatuses[returned.msg].status = "failed"
       /\ returned.kind = "queued"
            => emailStatuses[returned.msg].status = "queued"

\* a dispatched call has returned the failure of the last provider
C7_Witness ==
  /\ script = AllFail
  /\ returned.kind = "dispatched"
  /\ returned.prov = NumProviders
  /\ returned.result.error = "provider error"
  /\ emailStatuses[returned.msg].status = "failed"

\* C8: with a first provider that fails once and then succeeds (k = 1 <
\* maxAttempts) and a breaker that one failure does not open, a dispatched
\* sendEmail returns success by that provider, after one invocation more than
\* the failures it met, and the status counts as many attempts as the call
\* made invocations.
C8_RetryCount ==
  (script[Providers[1]].mode = "count" /\ script[Providers[2]].mode = "fail"
     /\ options.failureThreshold > 1 /\ returned.kind = "dispatched")
    => /\ returned.result.success
       /\ returned.result.provider = Providers[1]
       /\ returned.invoked \in {1, 2}
       /\ emailStatuses[returned.msg].attempts = returned.invoked

(* -------------------------------- the breaker -------------------------- *)
\* failing invocations of the last monitoringWindow, as the caller counts them
FailedInWindow ==
  Cardinality({k \in 1..Len(ops.failed) : ops.failed[k] < options.monitoringWindow})

\* C9: a failing invocation that finds the breaker closed and is the
\* failureThreshold-th (or later) failure of the monitoring window opens it; an
\* execute() that finds the breaker open less than resetTimeout after the last
\* failure leaves it open and does not invoke the operation.
C9_OpensAtThresholdRejectsWhileOpen ==
  LET b == circuitBreakers[Breaker]
      e == ops.event IN
  /\ (e.op = "failure" /\ e.was = "closed"
        /\ FailedInWindow >= options.failureThreshold)
       => b.state = "open"
  /\ (e.op = "execute" /\ e.was = "open" /\ e.elapsed < options.resetTimeout)
       => b.state = "open" /\ ops.inflight = e.inflight

\* an execute() rejected by a breaker that two failures opened
C9_Witness ==
  /\ ops.event.op = "execute"
  /\ ops.event.was = "open"
  /\ ops.event.elapsed < options.resetTimeout
  /\ options.failureThreshold = 2
  /\ Len(ops.failed) = 2
  /\ circuitBreakers[Breaker].state = "open"

\* C10: an execute() that finds the breaker open more than resetTimeout after
\* the last failure makes it half-open with probe counter 0 and invokes the
\* operation; of the successes that find it half-open the first leaves it
\* half-open and the second closes it; a failure that finds it half-open opens
\* it, whatever the threshold, with the cool-down counted from that failure.
C10_HalfOpenProbing ==
  LET b == circuitBreakers[Breaker]
      e == ops.event IN
  /\ (e.op = "execute" /\ e.was = "open" /\ e.elapsed > options.resetTimeout)
       => /\ b.state = "half-open"
          /\ b.successCount = 0
          /\ ops.inflight = e.inflight + 1
  /\ (e.op = "success" /\ e.was = "half-open")
       => /\ ops.wins \in {1, 2}
          /\ ops.wins = 1 => b.state = "half-open"
          /\ ops.wins = 2 => b.state = "closed"
  /\ (e.op = "failure" /\ e.was = "half-open")
       => b.state = "open" /\ b.lastFailureTime = 0

\* the second probe success has closed a breaker that two failures had opened
C10_Witness ==
  /\ ops.event.op = "success"
  /\ ops.event.was = "half-open"
  /\ ops.wins = 2
  /\ options.failureThreshold = 2
  /\ circuitBreakers[Breaker].state = "closed"

(* ------------------------------- rate limiter -------------------------- *)
\* the sendEmail call the sequential caller has made last, and whether the
\* identifiers submitted so far are distinct (the first is always "m1")
CallerSlot == 1
DistinctSoFar(m) == submits = 1 \/ (submits = 2 /\ m = "m2")

\* C11: while no time has passed since construction (full bucket of
\* maxRequests tokens), of the sendEmail calls made one after the other for
\* distinct messages the first maxRequests get a token and are dispatched
\* unless every breaker is open, and the next one gets none: it is put at the
\* tail of the queue and returns the non-success rate-limit outcome.  Once a
\* full window has passed since the last refill the bucket is back at
\* maxRequests tokens.
C11_FirstNAdmittedNextQueued ==
  LET c == calls[CallerSlot] IN
  /\ (~history.elapsed /\ c.pc = "acq" /\ DistinctSoFar(c.msg))
       => (c.acquired <=> submits <= options.maxRequests)
  /\ (~history.elapsed /\ returned.slot = CallerSlot /\ DistinctSoFar(returned.msg)
        /\ submits <= options.maxRequests)
       => \/ returned.kind = "dispatched"
          \/ returned.kind = "queued" /\ returned.result = AllOpenResult
  /\ (~history.elapsed /\ returned.slot = CallerSlot /\ DistinctSoFar(returned.msg)
        /\ submits = options.maxRequests + 1)
       => /\ returned.kind = "queued"
          /\ ~returned.result.success
          /\ returned.result \in {RateLimitResult, AllOpenResult}
          /\ emailQueue # <<>>
          /\ emailQueue[Len(emailQueue)] = returned.msg
          /\ emailStatuses[returned.msg].status = "queued"
  /\ rateLimiter.lastRefill >= options.windowMs
       => GetAvailableTokens(rateLimiter) = options.maxRequests

\* with a bucket of one token the second call, made at once for another
\* message, has been queued by the rate limiter
C11_Witness ==
  /\ ~history.elapsed
  /\ options.maxRequests = 1
  /\ submits = 2
  /\ returned.slot = CallerSlot
  /\ returned.msg = "m2"
  /\ returned.result = RateLimitResult
  /\ emailQueue = <<"m2">>
  /\ "m1" \in sentEmails

(* ------------------------------ error handling ------------------------- *)
\* a sendEmail call for m has been made and has not returned yet
InFlight(m) ==
  \E i \in Slots : calls[i].msg = m /\ calls[i].pc \notin {"idle", "done"}

\* C12: whatever the providers and the breakers do, sendEmail hands back an
\* outcome (a success, or a non-success with an error text), and the status of
\* the message is then sent, failed or queued: sent with a success, queued when
\* the message was queued, failed otherwise.  A status is "sending" only while
\* a call for the message is still running.
C12_ReturnsOutcomeAndRecordsStatus ==
  /\ returned.slot # -1
       => LET s == emailStatuses[returned.msg].status IN
          /\ returned.kind \in {"idempotent", "queued", "dispatched"}
          /\ returned.result.success \/ returned.result.error # ""
          /\ s \in {"sent", "failed", "queued"}
          /\ returned.result.success <=> s = "sent"
          /\ returned.kind = "queued" <=> s = "queued"
  /\ \A m \in MsgIds : emailStatuses[m].status = "sending" => InFlight(m)

\* a call whose last attempt the open breaker of the last provider rejected has
\* returned the failure
C12_Witness ==
  /\ returned.kind = "dispatched"
  /\ returned.result.error = "Circuit breaker is OPEN"
  /\ emailStatuses[returned.msg].status = "failed"

(* ------------------------------ status records ------------------------- *)
\* C13: the attempt count of a status never decreases from one state to the
\* next (clear() is never called here), so calling sendEmail again for a
\* message that failed or was queued does not reset it.
C13_AttemptsNeverDecrease ==
  [][\A m \in MsgIds :
       emailStatuses'[m].attempts >= emailStatuses[m].attempts]_vars

\* C14: a status that is sent or failed counts at least one attempt; a status
\* with no attempt is queued or sending (or the message has no status yet).
C14_SettledStatusHasAttempts ==
  \A m \in MsgIds :
    /\ emailStatuses[m].status \in {"sent", "failed"}
         => emailStatuses[m].attempts >= 1
    /\ emailStatuses[m].attempts = 0
         => emailStatuses[m].status \in {"none", "queued", "sending"}

\* C15: a message whose status is sent is in sentEmails, and the provider the
\* status names is one whose call for the message succeeded.
C15_SentIsInLedgerWithProvider ==
  \A m \in MsgIds :
    emailStatuses[m].status = "sent"
      => /\ m \in sentEmails
         /\ emailStatuses[m].provider \in history.by[m]

\* a message sent by the second provider after the first one failed
C15_Witness ==
  \E m \in MsgIds :
    /\ emailStatuses[m].status = "sent"
    /\ emailStatuses[m].provider = Providers[2]
    /\ returned.kind = "dispatched"
    /\ returned.msg = m
    /\ m \in sentEmails

(* --------------------------- the limiter on its own -------------------- *)
\* the quota a call finds once the time since the last refill is credited:
\* maxRequests tokens per window, capped at maxRequests (in 1/windowMs tokens)
Credited(rl) ==
  LET q == rl.tokens + rl.lastRefill * options.maxRequests
      cap == options.maxRequests * options.windowMs IN
  IF q > cap THEN cap ELSE q

\* C16: acquire() admits exactly when the quota it finds, refill included, is
\* at least one token; it then leaves that quota less one token, and on denial
\* that quota as it is; the quota is always between 0 and maxRequests.
C16_AcquireRefillsThenTakesOne ==
  LET e == ops.call
      q == Credited(e.before) IN
  /\ e.op = "acquire"
       => /\ e.ok <=> q >= options.windowMs
          /\ e.ok => rateLimiter.tokens = q - options.windowMs
          /\ ~e.ok => rateLimiter.tokens = q
  /\ rateLimiter.tokens >= 0
  /\ rateLimiter.tokens <= options.maxRequests * options.windowMs

\* an acquire() denied on a bucket that had refilled by less than a token
C16_Witness ==
  /\ ops.call.op = "acquire"
  /\ ~ops.call.ok
  /\ ops.call.before.lastRefill > 0
  /\ rateLimiter.tokens > 0

\* C17: getAvailableTokens() returns the whole tokens of the quota it finds,
\* refill included, and leaves the limiter with exactly that quota; while no
\* time has passed since construction it returns maxRequests less the number
\* of acquire() calls admitted so far; and the limiter admits its next
\* acquire() exactly when a limiter that was never read would.
C17_AvailableReportsFloor ==
  LET e == ops.call
      q == Credited(e.before) IN
  /\ e.op = "available"
       => /\ e.reported * options.windowMs <= q
          /\ q < (e.reported + 1) * options.windowMs
          /\ rateLimiter = [tokens |-> q, lastRefill |-> 0]
          /\ ~history.elapsed => e.reported = options.maxRequests - ops.admitted
  /\ Acquire(rateLimiter).ok <=> Acquire(ops.unread).ok

\* getAvailableTokens() has returned 0 on a bucket that holds part of a token
C17_Witness ==
  /\ ops.call.op = "available"
  /\ ops.call.reported = 0
  /\ rateLimiter.tokens > 0
  /\ ops.admitted > 0

(* ------------------------------- the drain loop ------------------------ *)
\* a step that queues a message while the loop is running leaves the loop as it
\* is; a step that shortens the queue is the loop taking the head with a token
QueuedBesideLoop ==
  (Len(emailQueue') > Len(emailQueue) /\ drain.pc # "off")
    => (drain' = drain /\ isProcessingQueue')

HeadTakenByLoop ==
  Len(emailQueue') < Len(emailQueue)
    => /\ emailQueue' = Tail(emailQueue)
       /\ drain.pc = "acq" /\ drain.got
       /\ drain'.pc = "send"

AllOpenQueues ==
  (submits' = submits + 1 /\ AllCircuitBreakersOpen(circuitBreakers))
    => /\ returned'.slot # -1
       /\ returned'.kind = "idempotent" => returned'.msg \in sentEmails
       /\ returned'.kind # "idempotent" => returned'.result = AllOpenResult

\* a sendEmail call that resumes without a token returns the rate-limit outcome
DeniedQueues ==
  \A i \in Slots :
    (calls[i].pc = "acq" /\ ~calls[i].acquired /\ calls'[i].pc # "acq")
      => /\ returned'.slot = i
         /\ returned'.msg = calls[i].msg
         /\ returned'.result = RateLimitResult

\* C19: a sendEmail call that finds every breaker open, or gets no token,
\* returns a non-success outcome having invoked no provider; the message is
\* then the last entry of the queue and its status is queued with attempts 0.
C19_QueuedOutcome ==
  /\ [](returned.result \in {AllOpenResult, RateLimitResult}
          => /\ returned.kind = "queued"
             /\ ~returned.result.success
             /\ returned.invoked = 0
             /\ returned.attempt = 0
             /\ emailQueue # <<>>
             /\ emailQueue[Len(emailQueue)] = returned.msg
             /\ emailStatuses[returned.msg].status = "queued"
             /\ emailStatuses[returned.msg].attempts = 0)
  /\ [][AllOpenQueues /\ DeniedQueues]_vars

\* a call for a message that had failed on every provider has been queued
\* because every breaker is open
C19_Witness ==
  /\ returned.result = AllOpenResult
  /\ returned.slot = CallerSlot
  /\ submits = 2
  /\ emailQueue = <<returned.msg>>
  /\ emailStatuses[returned.msg].attempts = 0

(* --------------------------- rejections by the breaker ----------------- *)
\* C20: an execute() call that finds the breaker open no more than
\* resetTimeout after the last failure invokes nothing and leaves the breaker
\* as it is: state, failures, lastFailureTime, successCount and
\* failureHistory.
C20_RejectionLeavesBreaker ==
  [][(/\ ops'.executes = ops.executes + 1
      /\ circuitBreakers[Breaker].state = "open"
      /\ circuitBreakers[Breaker].lastFailureTime <= options.resetTimeout)
       => /\ circuitBreakers'[Breaker] = circuitBreakers[Breaker]
          /\ ops'.inflight = ops.inflight]_vars

\* an execute() rejected exactly resetTimeout after the last failure: the
\* cool-down still counts from that failure
C20_Witness ==
  /\ ops.event.op = "execute"
  /\ ops.event.was = "open"
  /\ ops.event.elapsed = options.resetTimeout
  /\ circuitBreakers[Breaker].state = "open"
  /\ circuitBreakers[Breaker].lastFailureTime = options.resetTimeout
  /\ circuitBreakers[Breaker].failures > 0

(* --------------------------- the breaker's transitions ----------------- *)
\* a change of the breaker's state, with the call that made it
BreakerMoves ==
  LET was == circuitBreakers[Breaker].state
      now == circuitBreakers'[Breaker].state
      op == ops'.event.op IN
  now # was
    => \/ op = "reset" /\ now = "closed"
       \/ op = "failure" /\ was = "closed" /\ now = "open"
       \/ op = "execute" /\ was = "open" /\ now = "half-open"
       \/ op = "failure" /\ was = "half-open" /\ now = "open"
       \/ op = "success" /\ was = "half-open" /\ now = "closed"

\* C21: the breaker starts closed; its state changes only from closed to open
\* (a failure), open to half-open (an execute() call), half-open to open (a
\* failure) and half-open to closed (a success), and to closed by reset().
C21_BreakerTransitions ==
  /\ circuitBreakers[Breaker].state = "closed"
  /\ [][BreakerMoves]_vars

\* an operation admitted before the breaker opened has succeeded afterwards:
\* the breaker is still open
C21_Witness ==
  /\ ops.event.op = "success"
  /\ ops.event.was = "open"
  /\ circuitBreakers[Breaker].state = "open"

\* C22: a failure that finds the breaker closed opens it exactly when the
\* failures of the last monitoringWindow, that one included, number at least
\* failureThreshold; the failures the breaker holds within the window are
\* always the ones that happened (since construction or reset()), whatever
\* successes came in between.
C22_OpensIffThresholdInWindow ==
  LET b == circuitBreakers[Breaker]
      e == ops.event
      inWindow == {k \in 1..Len(b.failureHistory) :
                     b.failureHistory[k] < options.monitoringWindow} IN
  /\ (e.op = "failure" /\ e.was = "closed")
       => (b.state = "open" <=> FailedInWindow >= options.failureThreshold)
  /\ Cardinality(inWindow) = FailedInWindow

\* a failure left the breaker closed although as many failures as the
\* threshold have happened: the earlier one is older than the window
C22_Witness ==
  /\ ops.event.op = "failure"
  /\ ops.event.was = "closed"
  /\ circuitBreakers[Breaker].state = "closed"
  /\ Len(ops.failed) >= options.failureThreshold

\* what a completed operation does to the failures counter (getFailureCount)
CountsFailures ==
  LET was == circuitBreakers[Breaker].failures
      now == circuitBreakers'[Breaker].failures IN
  /\ ops'.event.op = "success" => now = 0
  /\ ops'.event.op = "failure" => now = was + 1
  /\ ops'.event.op = "execute" => now = was

\* C23: an operation that succeeds sets the breaker's failures counter to 0,
\* whatever the state of the breaker, and an operation that fails adds exactly
\* 1 to it; execute() itself does not touch it.
C23_FailureCounter == [][CountsFailures]_vars

\* a success arrived at an open breaker and cleared the counter
C23_Witness ==
  /\ ops.event.op = "success"
  /\ ops.event.was = "open"
  /\ Len(ops.failed) >= 1
  /\ circuitBreakers[Breaker].failures = 0

\* C24: once an operation has resolved or rejected, failureHistory holds no
\* time older than monitoringWindow.
C24_HistoryWithinWindow ==
  LET h == circuitBreakers[Breaker].failureHistory IN
  ops.event.op \in {"success", "failure"}
    => \A k \in 1..Len(h) : h[k] <= options.monitoringWindow

(* -------------------------------- one dispatch ------------------------- *)
\* sendEmail call i is between its call and its return
Running(c) == c.pc \notin {"idle", "done"}

\* what one step may do to the provider a running call is at: stay, or move to
\* the next in the list, starting with the first; a call that holds a success
\* result does nothing but return it
InPriorityOrder ==
  \A i \in Slots :
    LET c == calls[i]
        d == calls'[i] IN
    /\ (Running(c) /\ Running(d))
         => /\ d.msg = c.msg
            /\ d.prov \in {c.prov, c.prov + 1}
            /\ d.prov = c.prov + 1 => d.invoked <= 1
            /\ d.prov = c.prov => d.invoked \in {c.invoked, c.invoked + 1}
    /\ (c.pc = "acq" /\ Running(d)) => c.prov = 0
    /\ (c.pc = "ret" /\ c.result.success)
         => \/ d = c
            \/ /\ ~Running(d)
               /\ returned'.slot = i
               /\ returned'.result = c.result
               /\ returned'.result.provider = Providers[c.prov]
               /\ returned'.invoked = c.invoked

\* C25: a dispatch tries the providers in the order of the list, from the
\* first, and once a try has succeeded it makes no other try, on that provider
\* or a later one: it returns that success.
C25_PriorityOrderStopAtSuccess == [][InPriorityOrder]_vars

\* a dispatch that fell back to the second provider has returned the success
\* of its first try there
C25_Witness ==
  /\ returned.kind = "dispatched"
  /\ returned.result.success
  /\ returned.prov = 2
  /\ returned.invoked = 1
  /\ returned.attempt = 1

\* call i makes a try in this step: it goes on to its next attempt on its
\* provider or to the first attempt on the next provider
TryStep(i) ==
  /\ Running(calls'[i])
  /\ <<calls'[i].prov, calls'[i].attempt>> # <<calls[i].prov, calls[i].attempt>>

\* provider invocations a call has made on provider p so far
InvokedOn(c, p) == IF p = c.prov THEN c.invoked ELSE 0

\* what a try does: the counter of the message goes up by one (from the zero
\* of the "sending" record for the first try); the try that the breaker rejects
\* makes no provider call, leaves the breaker alone, and is handled by the
\* catch block like a provider error
TryCounted ==
  \A i \in Slots :
    LET c == calls[i]
        d == calls'[i]
        name == Providers[d.prov] IN
    /\ TryStep(i)
         => /\ emailStatuses'[d.msg].attempts =
                 IF c.pc = "acq" THEN 1 ELSE emailStatuses[d.msg].attempts + 1
            /\ d.attempt = IF d.prov = c.prov THEN c.attempt + 1 ELSE 1
            /\ d.attempt <= options.maxAttempts
            /\ \/ /\ d.pc = "inflight"
                  /\ d.invoked = InvokedOn(c, d.prov) + 1
               \/ /\ d.invoked = InvokedOn(c, d.prov)
                  /\ circuitBreakers[name].state = "open"
                  /\ circuitBreakers'[name] = circuitBreakers[name]
                  /\ d = Caught([d EXCEPT !.pc = c.pc, !.lastError = c.lastError,
                                          !.timer = c.timer],
                                "Circuit breaker is OPEN")
    /\ (c.pc = "inflight" /\ d.pc \in {"backoff", "next"})
         => d = Caught(c, "provider error")

\* the counter goes up only by a try
CountedOnlyByTry ==
  \A m \in MsgIds :
    emailStatuses'[m].attempts > emailStatuses[m].attempts
      => \E i \in Slots : TryStep(i) /\ calls'[i].msg = m

\* C26: each try of a dispatch adds exactly one to the attempt counter of the
\* message's status before it runs, a try rejected by an open breaker included;
\* a rejected try counts against maxAttempts and is followed by the backoff
\* wait that follows a provider failure.
C26_EveryTryCounted == [][TryCounted /\ CountedOnlyByTry]_vars

\* a call is in the backoff wait that follows a try rejected by the breaker
C26_Witness ==
  \E i \in Slots :
    /\ calls[i].pc = "backoff"
    /\ calls[i].invoked < calls[i].attempt
    /\ calls[i].timer = BackoffDelay(calls[i].attempt)
    /\ emailStatuses[calls[i].msg].attempts >= calls[i].attempt

\* call i starts a backoff wait in this step
StartsWait(i) ==
  /\ calls'[i].pc = "backoff"
  /\ calls[i].pc = "backoff" => calls'[i].attempt # calls[i].attempt

\* call i ends the backoff wait it is in
EndsWait(i) ==
  /\ calls[i].pc = "backoff"
  /\ calls'[i].pc = "backoff" => calls'[i].attempt # calls[i].attempt

\* the wait after failed try number attempt, as the claim gives it
ClaimedWait(attempt) ==
  Min(options.baseDelay * Pow(options.backoffFactor, attempt - 1),
      options.maxDelay)

\* the waits of a call: one of the claimed length starts after a failed try
\* that is not the provider's last, runs down with the clock only, and the
\* same provider is retried once it has run out; after the last try the call
\* goes on to the next provider (attempt 1) or to its result with no tick of
\* the clock in between
WaitsBetweenTries ==
  \A i \in Slots :
    LET c == calls[i]
        d == calls'[i] IN
    /\ StartsWait(i)
         => /\ d.attempt \in 1..(options.maxAttempts - 1)
            /\ d.timer = ClaimedWait(d.attempt)
    /\ (c.pc = "backoff" /\ ~EndsWait(i))
         => d.timer = IF Tick THEN Sooner(c.timer) ELSE c.timer
    /\ EndsWait(i)
         => /\ c.timer = 0
            /\ d.prov = c.prov
            /\ d.attempt = c.attempt + 1
    /\ (c.pc # "next" /\ d.pc = "next") => d.attempt = options.maxAttempts
    /\ c.pc = "next"
         => /\ ~Tick
            /\ d # c => \/ d.pc = "ret" /\ c.prov = NumProviders
                        \/ d.prov = c.prov + 1 /\ d.attempt = 1
    /\ (c.pc = "acq" /\ TryStep(i)) => d.attempt = 1

\* C27: after failed try number i on a provider, i below maxAttempts, the
\* dispatch waits min(baseDelay * backoffFactor^(i-1), maxDelay) and then
\* retries that provider; it does not wait after the provider's last try, and
\* the tries are numbered from 1 on each provider.
C27_BackoffWaits == [][WaitsBetweenTries]_vars

\* the wait after a third failed try has begun, cut down to maxDelay
C27_Witness ==
  \E i \in Slots :
    /\ calls[i].pc = "backoff"
    /\ calls[i].attempt = 3
    /\ calls[i].timer = options.maxDelay
    /\ options.baseDelay * Pow(options.backoffFactor, 2) > options.maxDelay

\* C28: a dispatch reports failure only when the last provider of the list has
\* made its last try (try number maxAttempts), every provider before it having
\* done the same, and it reports the error of that try; a provider that
\* resolves with a non-success outcome is no exception.
C28_FailureAfterFullBudget ==
  (returned.kind = "dispatched" /\ ~returned.result.success)
    => /\ returned.prov = NumProviders
       /\ returned.attempt = options.maxAttempts
       /\ returned.result.error \in {"provider error", "Circuit breaker is OPEN"}

(* ------------------------ submits that do not dispatch ----------------- *)
\* a sendEmail call returns in this step with the outcome of the given kind
ReturnsNow(kind) == returned'.slot # -1 /\ returned'.kind = kind

\* the queue as the returning call found it: processQueue has shifted the
\* message off before it called sendEmail
QueueFound ==
  IF returned'.slot = DrainSlot THEN Tail(emailQueue) ELSE emailQueue

\* the call answered from the ledger touches nothing
IdempotentTouchesNothing ==
  ReturnsNow("idempotent")
    => /\ rateLimiter' = rateLimiter
       /\ circuitBreakers' = circuitBreakers
       /\ sentEmails' = sentEmails
       /\ emailStatuses' = emailStatuses
       /\ emailQueue' = QueueFound
       /\ isProcessingQueue' = isProcessingQueue

\* the call queued because every breaker is open leaves limiter and breakers
AllOpenSparesQuota ==
  (ReturnsNow("queued") /\ returned'.result = AllOpenResult)
    => /\ rateLimiter' = rateLimiter
       /\ circuitBreakers' = circuitBreakers
       /\ emailQueue' = Append(QueueFound, returned'.msg)

\* C29: a sendEmail call that returns the recorded success of a message
\* already sent, or that queues the message because every breaker is open,
\* takes nothing from the rate limiter and changes no breaker; the first of
\* the two also leaves the statuses, the set of sent messages and the queue as
\* they were.
C29_ShortCircuitsTouchNothing ==
  [][IdempotentTouchesNothing /\ AllOpenSparesQuota]_vars

\* a caller's message has been queued with every breaker open while the bucket
\* held a token, and the drain loop it started is paused
C29_Witness ==
  /\ returned.result = AllOpenResult
  /\ returned.slot = CallerSlot
  /\ drain.pc = "pause"
  /\ drain.timer = QueuePause
  /\ Refill(rateLimiter).tokens >= OneToken

(* ------------------------------ the drain loop ------------------------- *)
\* processQueue is between its start and its end
DrainActive == drain.pc # "off"

\* whenever the queue holds a message the loop is running, and the flag says so
QueueHasDrain ==
  /\ emailQueue # <<>> => DrainActive
  /\ isProcessingQueue <=> DrainActive

\* the loop ends only on an empty queue, and a message that joins the queue
\* while no loop is running starts one
DrainStopsAndStarts ==
  /\ (DrainActive /\ drain'.pc = "off") => emailQueue' = <<>>
  /\ (~DrainActive /\ Len(emailQueue') > Len(emailQueue)) => drain'.pc # "off"

\* C30: whenever the queue is not empty a drain loop is running: the loop
\* ends only when it finds the queue empty, and a message queued while no loop
\* is running starts one; a message queued while the loop awaits the
\* resubmission of the one it took is not left behind.
C30_NonEmptyQueueHasDrain == []QueueHasDrain /\ [][DrainStopsAndStarts]_vars

\* a message has joined the queue while the loop was awaiting the sendEmail
\* call for the message it had taken
C30_Witness ==
  /\ drain.pc = "send"
  /\ emailQueue # <<>>
  /\ isProcessingQueue
  /\ returned.kind = "queued"

(* ------------------------- the queue with several waiting -------------- *)
\* The service with a bucket of one token and providers that always succeed,
\* called more often than the bucket admits: the steps of a failing provider
\* (ProviderThrows, ProviderResolvesFailure, BackoffDone, NextProvider) cannot
\* happen here.  At most MaxSubmits calls are in progress at a time.
ReliableTight == [options |-> TightLimitOptions, script |-> AllSucceed]

SubmitBurst(m) ==
  /\ submits < MaxQueueSubmits
  /\ \E i \in Slots \ {DrainSlot} : calls[i].pc = "idle"
  /\ FreshId(m)
  /\ submits' = submits + 1
  /\ CallSendEmail(FreeSlot, m, emailQueue, isProcessingQueue, drain)
  /\ Kept
  /\ UNCHANGED <<options, script, circuitBreakers, sentEmails, ops>>

InitQueue == InitService(ReliableTight)

NextQueue ==
  \/ \E m \in MsgIds : SubmitBurst(m)
  \/ \E i \in Slots :
       \/ AfterAcquire(i)
       \/ ProviderSucceeds(i)
       \/ RecordResult(i)
  \/ DrainAfterAcquire
  \/ DrainResume
  \/ Tick

SpecQueue == InitQueue /\ [][NextQueue]_vars

\* processQueue takes a message off the queue in this step and calls
\* sendEmail for it: the message is the head
TakesHead ==
  /\ emailQueue # <<>>
  /\ drain.pc = "acq"
  /\ drain'.pc = "send"
  /\ \/ calls'[DrainSlot].msg = Head(emailQueue)
     \/ returned'.slot = DrainSlot /\ returned'.msg = Head(emailQueue)

\* what a step may do to the queue: nothing, add a message at the tail, take
\* the head for resubmission, or both (the message sendEmail queues at once)
QueueIsFifo ==
  \/ emailQueue' = emailQueue
  \/ \E m \in MsgIds : emailQueue' = Append(emailQueue, m)
  \/ /\ TakesHead
     /\ \/ emailQueue' = Tail(emailQueue)
        \/ emailQueue' = Append(Tail(emailQueue), Head(emailQueue))

\* C31: the queue is first in, first out: the drain loop takes the head and
\* nothing else, every message queued goes to the tail, and so does a message
\* queued again while it is being resubmitted, behind the messages waiting.
C31_QueueIsFifo == [][QueueIsFifo]_vars

\* m2 was queued before m1; the loop took m2, whose resubmission queued it
\* again: it now waits behind m1
C31_Witness ==
  /\ emailQueue = <<"m1", "m2">>
  /\ returned.slot = DrainSlot
  /\ returned.kind = "queued"
  /\ returned.msg = "m2"
  /\ drain.pc = "send"

(* ------------------------ the passes of the drain loop ----------------- *)
\* the loop starts a sleep of the given kind in this step
StartsSleep(kind) ==
  /\ drain'.pc = kind
  /\ drain.pc = kind => drain'.timer > drain.timer

\* a pass of the loop: it asks the rate limiter only when not every breaker is
\* open, takes the head only with the token it was just given, and otherwise
\* sleeps: the fixed pause when every breaker is open, the time the limiter
\* reports when it was denied, both longer than nothing; a sleep runs down
\* with the clock and the loop goes on only when it has run out
DrainPass ==
  /\ (drain.pc # "acq" /\ drain'.pc = "acq")
       => /\ ~AllCircuitBreakersOpen(circuitBreakers)
          /\ drain'.got = Acquire(rateLimiter).ok
          /\ rateLimiter' = Acquire(rateLimiter).rl
  /\ drain.pc = "acq"
       => \/ drain' = drain
          \/ drain.got /\ TakesHead
          \/ ~drain.got /\ StartsSleep("wait") /\ emailQueue' = emailQueue
  /\ TakesHead
       => /\ drain.got
          /\ ~AllCircuitBreakersOpen(circuitBreakers)
  /\ StartsSleep("pause")
       => /\ AllCircuitBreakersOpen(circuitBreakers)
          /\ drain'.timer = QueuePause
          /\ drain'.timer > 0
  /\ StartsSleep("wait")
       => /\ drain'.timer = GetRemainingTime(rateLimiter)
          /\ drain'.timer > 0
  /\ (drain.pc \in {"pause", "wait"} /\ ~StartsSleep(drain.pc))
       => \/ drain' = drain
          \/ Tick /\ drain' = [drain EXCEPT !.timer = Sooner(@)]
          \/ drain.timer = 0 /\ drain'.pc # drain.pc
  /\ (drain.pc \in {"pause", "wait"} /\ StartsSleep(drain.pc))
       => drain.timer = 0

\* C32: each pass of the drain loop either takes the head of the queue, and
\* then not every breaker is open and acquire() has just admitted it, or
\* sleeps for more than no time: the fixed pause when every breaker is open,
\* getRemainingTime() when acquire() denied it.  It never goes round without
\* one or the other.
C32_DrainPassTakesOrSleeps == [][DrainPass]_vars

\* the loop, denied by the rate limiter, has begun to wait for the time the
\* limiter reported
C32_Witness ==
  /\ drain.pc = "wait"
  /\ drain.timer = GetRemainingTime(rateLimiter)
  /\ drain.timer > 0
  /\ emailQueue # <<>>
  /\ ~AllCircuitBreakersOpen(circuitBreakers)

(* --------------------------- the time to the next token ---------------- *)
\* the least whole time d after which tokens stored as t, refilled at
\* maxRequests per windowMs, make a whole token: 0 when they already do
TimeToOneToken(t) ==
  CHOOSE d \in 0..options.windowMs :
    /\ t + d * options.maxRequests >= OneToken
    /\ \A e \in 0..(d - 1) : t + e * options.maxRequests < OneToken

\* what getRemainingTime() reports
ReportsTimeToOneToken ==
  ops.call.op = "remaining"
    => /\ ops.call.reported = TimeToOneToken(ops.call.before.tokens)
       /\ ops.call.before.tokens >= OneToken => ops.call.reported = 0
       /\ ops.call.before.tokens < OneToken => ops.call.reported > 0

\* an acquire() made when the time reported after the denied acquire() before
\* it has passed is admitted
AdmittedAfterTheWait ==
  (ops'.acquires = ops.acquires + 1 /\ ops.wait # -1 /\ ops.since >= ops.wait)
    => ops'.call.ok

ResetCircuitBreakers ==
  /\ ops.resets < MaxResets
  /\ circuitBreakers' =
       [p \in ProviderNames |-> ResetBreaker(circuitBreakers[p])]
  /\ ops' = [ops EXCEPT !.resets = @ + 1]
  /\ Quiet
  /\ UNCHANGED <<options, script, rateLimiter, emailStatuses, sentEmails,
                 emailQueue, isProcessingQueue, drain, calls, submits>>
  /\ Kept

\* the service with providers that fail by throwing: the first always, or the
\* first once and the second always with a breaker that one failure opens
InitReset ==
  \E sc \in {[options |-> DefaultOptions, script |-> FirstFailsSecondSucceeds],
              [options |-> EagerBreakerOptions, script |-> FirstFailsOnce]} :
    InitService(sc)

\* callers that await each call, and an administrator; no provider resolves
\* with success: false here
NextReset ==
  \/ \E m \in MsgIds : SubmitSeq(m)
  \/ \E i \in Slots :
       \/ AfterAcquire(i)
       \/ ProviderSucceeds(i)
       \/ ProviderThrows(i)
       \/ BackoffDone(i)
       \/ NextProvider(i)
       \/ RecordResult(i)
  \/ DrainAfterAcquire
  \/ DrainResume
  \/ Tick
  \/ ResetCircuitBreakers

SpecReset == InitReset /\ [][NextReset]_vars

\* what a resetCircuitBreakers() call leaves
ResetClosesAll ==
  ops'.resets = ops.resets + 1
    => /\ \A p \in ProviderNames :
            /\ circuitBreakers'[p].state = "closed"
            /\ circuitBreakers'[p].failures = 0
            /\ circuitBreakers'[p].successCount = 0
            /\ circuitBreakers'[p].failureHistory = <<>>
       /\ emailStatuses' = emailStatuses
       /\ sentEmails' = sentEmails
       /\ emailQueue' = emailQueue
       /\ rateLimiter' = rateLimiter

\* C34: resetCircuitBreakers() leaves every breaker closed with failures 0,
\* successCount 0 and an empty failure history, whatever state it was in, and
\* leaves the statuses, the set of sent messages, the queue and the rate
\* limiter as they were.
C34_ResetClosesAll == [][ResetClosesAll]_vars

\* the breakers were reset while all of them were open: a message is still
\* queued and the drain loop still in its pause, with every breaker closed
C34_Witness ==
  /\ ops.resets = 1
  /\ emailQueue # <<>>
  /\ drain.pc = "pause"
  /\ \A p \in ProviderNames :
       /\ circuitBreakers[p].state = "closed"
       /\ circuitBreakers[p].failureHistory = <<>>

(* --------------------------- quota taken by a dispatch ----------------- *)
\* the tokens this step takes from the bucket, the refill due credited first
QuotaTaken == Refill(rateLimiter).tokens - rateLimiter'.tokens

\* a caller's sendEmail call is admitted in this step: its dispatch follows
DirectDispatchAdmitted ==
  \E i \in Slots \ {DrainSlot} :
    calls[i].pc = "idle" /\ calls'[i].pc = "acq" /\ calls'[i].acquired

\* the sendEmail call made by processQueue for the message it took is
\* admitted in this step: its dispatch follows
DrainDispatchAdmitted ==
  TakesHead /\ calls'[DrainSlot].pc = "acq" /\ calls'[DrainSlot].acquired

\* the token processQueue was given for the message it takes
LoopToken == IF drain.got THEN OneToken ELSE 0

OneTokenPerDispatch ==
  /\ DirectDispatchAdmitted => QuotaTaken = OneToken
  /\ DrainDispatchAdmitted => LoopToken + QuotaTaken = OneToken

\* C35: a dispatch takes exactly one token from the rate limiter, whether a
\* caller's sendEmail call leads to it or the call processQueue makes for a
\* queued message.
C35_OneTokenPerDispatch == [][OneTokenPerDispatch]_vars

(* ------------------------------ sent stays sent ------------------------ *)
\* no step takes a status away from sent
SentStaysSent ==
  \A m \in MsgIds :
    emailStatuses[m].status = "sent" => emailStatuses'[m].status = "sent"

\* the messages in sentEmails are those whose status is sent
LedgerIsSentSet ==
  \A m \in MsgIds : m \in sentEmails <=> emailStatuses[m].status = "sent"

\* C36: a status that is sent stays sent (clear() is never called here): no
\* sendEmail call for the message, made later, overlapping or by the drain
\* loop, makes it sending, queued or failed; so a message is in sentEmails
\* exactly when its status is sent.
C36_SentStaysSent == []LedgerIsSentSet /\ [][SentStaysSent]_vars

(* ------------------------- closing keeps the history ------------------- *)
\* the step in which the second probe success closes the breaker keeps every
\* failure of the history that is inside the monitoring window
ClosingKeepsHistory ==
  (circuitBreakers[Breaker].state = "half-open"
     /\ circuitBreakers'[Breaker].state = "closed"
     /\ ops'.event.op = "success")
    => /\ circuitBreakers'[Breaker].failureHistory =
            CleanupHistory(circuitBreakers[Breaker].failureHistory)
       /\ RecentFailures(circuitBreakers'[Breaker].failureHistory) =
            RecentFailures(circuitBreakers[Breaker].failureHistory)
       /\ Len(circuitBreakers'[Breaker].failureHistory) >= 1

\* only reset() empties a history that holds a failure
OnlyResetClears ==
  (circuitBreakers[Breaker].failureHistory # <<>>
     /\ circuitBreakers'[Breaker].failureHistory = <<>>)
    => ops'.event.op = "reset"

\* C37: the two probe successes that close a breaker leave its failure
\* history (only reset() empties it), so that a breaker that has just closed
\* can open again on a single failure, failureThreshold - 1 earlier failures
\* being still inside the monitoring window.
C37_ClosingKeepsHistory == [][ClosingKeepsHistory /\ OnlyResetClears]_vars

\* a breaker with a threshold of two, closed by two probe successes, has
\* opened again on the one failure after them
C37_Witness ==
  /\ options.failureThreshold = 2
  /\ ops.event.op = "failure"
  /\ ops.event.was = "closed"
  /\ ops.wins = 2
  /\ circuitBreakers[Breaker].state = "open"
  /\ circuitBreakers[Breaker].failures = 1
  /\ RecentFailures(circuitBreakers[Breaker].failureHistory) = 2

(* ------------------------ late answers to an open breaker -------------- *)
\* an operation admitted earlier resolves while the breaker is open: the
\* breaker stays open
LateSuccessKeepsOpen ==
  (circuitBreakers[Breaker].state = "open" /\ ops'.event.op = "success")
    => circuitBreakers'[Breaker].state = "open"

\* the breaker leaves open by an execute() call made when more than
\* resetTimeout has passed since the last failure, which makes it half-open,
\* or by reset()
LeavesOpenByProbeOrReset ==
  (circuitBreakers[Breaker].state = "open"
     /\ circuitBreakers'[Breaker].state # "open")
    => \/ /\ ops'.event.op = "execute"
          /\ circuitBreakers[Breaker].lastFailureTime > options.resetTimeout
          /\ circuitBreakers'[Breaker].state = "half-open"
       \/ /\ ops'.event.op = "reset"
          /\ circuitBreakers'[Breaker].state = "closed"

\* C38: with operations overlapping on one breaker, an operation admitted
\* while the breaker was closed that resolves after the breaker has opened
\* leaves it open; the breaker leaves open only by an execute() call made
\* after resetTimeout has passed, or by reset().
C38_LateSuccessKeepsOpen ==
  [][LateSuccessKeepsOpen /\ LeavesOpenByProbeOrReset]_vars

\* an operation has resolved on a breaker that other operations had opened
\* meanwhile, within the reset timeout, and the breaker is still open
C38_Witness ==
  /\ ops.event.op = "success"
  /\ ops.event.was = "open"
  /\ ops.event.elapsed <= options.resetTimeout
  /\ circuitBreakers[Breaker].state = "open"
  /\ circuitBreakers[Breaker].failures = 0

====
